---- MODULE Spec2Model ----
(***************************************************************************)
(* The agent server of ppaass-agent: the accept loop of AgentServer::run,  *)
(* the task spawned per client connection by handle_client_connection, and *)
(* HttpClientTransport::process, step by step.                             *)
(*                                                                         *)
(* An Option<T> of the source is a sequence of length at most one:         *)
(* None is <<>> and Some(x) is <<x>>.                                      *)
(***************************************************************************)
EXTENDS Integers, Sequences, FiniteSets, TLC

VARIABLES
    server,   \* the task spawned by AgentServer::start running AgentServer::run
    sess      \* one record per client connection: its task and its transport

vars == <<server, sess>>

-----------------------------------------------------------------------------
(* Bounds of the model *)

\* client connections that arrive at the listener
NumClients == 2
\* accept() or set_nodelay() failures the accept loop is shown to survive
MaxAcceptErrors == 2
\* distinct values random_32_bytes() can return
NumSeeds == 2
\* distinct tunnel ids the proxy can answer with
NumTunnelIds == 2
\* chunks the relay moves in one direction of one session
MaxChunks == 2
\* bytes of one chunk read from a socket or carried by one data frame
ChunkBytes == 2

-----------------------------------------------------------------------------
(* Constants of src/transport/http/mod.rs *)

HTTPS_SCHEMA == "https"
CONNECT_METHOD == "connect"
HTTPS_DEFAULT_PORT == 443
HTTP_DEFAULT_PORT == 80
OK_CODE == 200
CONNECTION_ESTABLISHED == "Connection Established"

None == <<>>
Some(x) == <<x>>

-----------------------------------------------------------------------------
(* The HTTP requests a client can send *)

\* Methods as the client writes them; the method token is case-sensitive text.
Methods == {"CONNECT", "connect", "GET"}

\* Schemes a request target can be written with; "" is a target without one
\* (authority-form "host:port", or a bare "host").
Schemes == {"", "http", "https", "ftp", "wss", "mailto"}

\* Hosts a request target can name; "" is an empty host ("https://:8443").
Hosts == {"example.com", "127.0.0.1", "0.0.0.1", ""}

\* Ports a request target can be written with; 0 is a target without a port.
Ports == {0, 21, 80, 443, 8443}

Targets == [scheme : Schemes, host : Hosts, port : Ports]

\* A CONNECT target is in authority-form (no scheme); any other method can
\* carry any target.
Requests ==
    {r \in [method : Methods, target : Targets] :
        r.method \in {"CONNECT", "connect"} => r.target.scheme = ""}

\* The requests of the clients of the server specification, where several
\* connections run side by side: a CONNECT that can be served and a
\* forwarded request to a refused host.
ServerRequests ==
    {[method |-> "CONNECT",
      target |-> [scheme |-> "", host |-> "example.com", port |-> 8443]],
     [method |-> "GET",
      target |-> [scheme |-> "http", host |-> "127.0.0.1", port |-> 0]]}

\* String::to_lowercase on the method tokens of Methods.
ToLowercase(m) ==
    CASE m = "CONNECT" -> "connect"
      [] m = "GET"     -> "get"
      [] OTHER         -> m

\* RequestEncoder::encode_into_bytes: the request line written back out.
EncodeRequest(req) == <<req.method, req.target>>

-----------------------------------------------------------------------------
(* Url::parse and the accessors of the url crate, on the targets above *)

\* The schemes the url crate calls special, which have an authority and a
\* known default port.
SpecialSchemes == {"http", "https", "ftp", "wss"}

KnownDefaultPort(scheme) ==
    CASE scheme = "http"  -> 80
      [] scheme = "https" -> 443
      [] scheme = "wss"   -> 443
      [] scheme = "ftp"   -> 21
      [] OTHER            -> 0

\* A host text that starts with a letter, so that "host:port" without "//"
\* reads as a scheme followed by an opaque path.
StartsWithLetter(host) == host = "example.com"

\* request_url is [prefix, target]: the text prefix ++ "://" ++ target when
\* prefix is not "", the target text alone otherwise.
\* Url::parse gives [ok, scheme, host, port]: host is an Option, port is the
\* port as written (0 for none).
ParseUrl(request_url) ==
    LET t == request_url.target
        Err == [ok |-> FALSE, scheme |-> "", host |-> None, port |-> 0]
    IN  IF request_url.prefix # ""
        THEN \* "https://host[:port]"
             IF t.host = ""
             THEN Err
             ELSE [ok |-> TRUE, scheme |-> request_url.prefix,
                   host |-> Some(t.host), port |-> t.port]
        ELSE IF t.scheme \in SpecialSchemes
        THEN IF t.host = ""
             THEN Err
             ELSE [ok |-> TRUE, scheme |-> t.scheme,
                   host |-> Some(t.host), port |-> t.port]
        ELSE IF t.scheme = "mailto"
        THEN \* "mailto:..." has no authority: a URL without a host
             [ok |-> TRUE, scheme |-> t.scheme, host |-> None, port |-> 0]
        ELSE \* no scheme written
             IF t.port # 0 /\ StartsWithLetter(t.host)
             THEN \* "example.com:80" is scheme "example.com", opaque path "80"
                  [ok |-> TRUE, scheme |-> t.host, host |-> None, port |-> 0]
             ELSE \* a relative URL without a base
                  Err

\* Url::port: the written port, None when there is none or when it is the
\* known default port of the scheme.
UrlPort(url) ==
    IF url.port = 0 \/ url.port = KnownDefaultPort(url.scheme)
    THEN None
    ELSE Some(url.port)

\* target_port of process: port().unwrap_or_else(|| match scheme { .. })
TargetPort(url) ==
    IF UrlPort(url) # None
    THEN UrlPort(url)[1]
    ELSE IF url.scheme = HTTPS_SCHEMA THEN HTTPS_DEFAULT_PORT ELSE HTTP_DEFAULT_PORT

\* IsInvalidDestination with the comparison against 127.0.0.1 left out.
IsInvalidDestination_OnlyZero(target_host) ==
    target_host = "0.0.0.1"

\* The hosts process refuses as a destination.
IsInvalidDestination(target_host) ==
    target_host = "0.0.0.1" \/ target_host = "127.0.0.1"

-----------------------------------------------------------------------------
(* ClientTransportDispatcher::dispatch: the leading bytes and their class *)

\* The method tokens of Methods as bytes.
MethodBytes(m) ==
    CASE m = "CONNECT" -> <<67, 79, 78, 78, 69, 67, 84>>
      [] m = "connect" -> <<99, 111, 110, 110, 101, 99, 116>>
      [] m = "GET"     -> <<71, 69, 84>>

\* The start of the request line of a request with method m: "m ".
RequestLineStart(m) == Append(MethodBytes(m), 32)

\* The leading bytes of a connection the dispatcher can find: SOCKS5
\* greetings, starts of HTTP request lines, and bytes that are neither (a
\* SOCKS4 request, a TLS hello, a request line starting with a space, a
\* method with a control byte, a method cut short by the end of the stream,
\* and a stream that ends at once).
LeadingBytes ==
    {<<5, 1, 0>>, <<5>>, <<5, 71, 69, 84, 32>>}
    \cup {RequestLineStart(m) : m \in Methods}
    \cup {<<4, 1>>, <<22, 3, 1>>, <<32, 71, 69, 84, 32>>, <<71, 5, 84, 32>>,
          <<71, 69, 84>>, <<>>}

\* The leading bytes of the clients of the server specification.
ServerLeadingBytes ==
    {<<5, 1, 0>>, RequestLineStart("CONNECT"), RequestLineStart("GET"),
     <<22, 3, 1>>}

\* SOCKS5 version marker.
SOCKS5_VERSION == 5

\* The bytes of an HTTP token: letters, digits and !#$%&'*+-.^_`|~
IsTokenByte(b) ==
    \/ b \in 65 .. 90
    \/ b \in 97 .. 122
    \/ b \in 48 .. 57
    \/ b \in {33, 35, 36, 37, 38, 39, 42, 43, 45, 46, 94, 95, 96, 124, 126}

\* A method token followed by a space: the start of an HTTP request line.
IsHttpRequestLine(buf) ==
    \E i \in 2 .. Len(buf) :
        /\ buf[i] = 32
        /\ \A j \in 1 .. i - 1 : IsTokenByte(buf[j])

\* The method of a request line: the bytes before its first space.
RequestLineMethod(buf) ==
    LET i == CHOOSE k \in 1 .. Len(buf) :
                 buf[k] = 32 /\ \A j \in 1 .. k - 1 : buf[j] # 32
    IN  SubSeq(buf, 1, i - 1)

\* Classify with the HTTP parse tried first and SOCKS5 as the fallback for
\* whatever is left.
Classify_HttpFirst(buf) ==
    IF IsHttpRequestLine(buf) THEN "Http"
    ELSE IF buf # <<>> THEN "Socks5"
    ELSE "Fail"

\* The classification policy: the SOCKS5 version marker first, then the
\* HTTP request line, else a classification error.
Classify(buf) ==
    IF buf # <<>> /\ buf[1] = SOCKS5_VERSION THEN "Socks5"
    ELSE IF IsHttpRequestLine(buf) THEN "Http"
    ELSE "Fail"

-----------------------------------------------------------------------------
(* The state of one client connection *)

Clients == 1 .. NumClients
Seeds == 1 .. NumSeeds
TunnelIds == 1 .. NumTunnelIds

\* The peer address of client c, which is also the src_address the
\* dispatcher gives its transport.
ClientAddr(c) == c

\* A client connection that has reached the listener and was not accepted yet.
PendingSession ==
    [pc |-> "pending",              \* where the connection's task stands
     transport |-> "None",          \* the ClientTransport variant of dispatch
     initial_buf |-> <<>>,          \* the bytes the dispatcher read
     transports_created |-> 0,      \* transports dispatch built for the socket
     process_calls |-> <<>>,        \* the variants whose process was called
     client_tcp_stream |-> "backlog",  \* backlog, open, relay or closed
     http_message |-> None,         \* the decoded request
     init_data |-> None,            \* Some(re-encoded request) when forwarded
     request_url |-> None,
     parsed_request_url |-> None,
     dst_address |-> None,
     payload_encryption |-> None,   \* the descriptor of ...Selector::select
     select_calls |-> 0,            \* calls of ...Selector::select
     tcp_init_request |-> None,
     factory_calls |-> 0,           \* calls of create_proxy_connection
     proxy_connection_write |-> "none",  \* none, held, relay or dropped
     proxy_connection_read |-> "none",
     proxy_sent |-> <<>>,           \* messages process sent to the proxy
     proxy_reads |-> 0,             \* reads of process on the proxy channel
     init_result |-> None,          \* payload of the proxy's answer
     client_written |-> <<>>,       \* responses process wrote to the client
     relay |-> None,                \* the argument of tcp_relay, once called
     to_proxy |-> <<>>,             \* payload frames the relay sent to the proxy
     to_client |-> <<>>,            \* chunks the relay wrote to the client
     upload_bytes_amount |-> 0,     \* the upload counter of the session
     download_bytes_amount |-> 0,   \* the download counter of the session
     relay_cause |-> "",            \* the side whose end of stream closes the relay
     result |-> "none",             \* none, Ok or Err: what the task returned
     error |-> "",
     log |-> <<>>]                  \* tracing events of this connection

LogEvent(level, line, addr) == [level |-> level, line |-> line, addr |-> addr]

\* Dropping one half of the proxy channel, if there is one.
DropHalf(h) == IF h = "none" THEN "none" ELSE "dropped"

\* ReturnErr with the proxy halves kept alive past the return (a leak).
ReturnErr_KeepsProxy(r, error) ==
    [r EXCEPT !.pc = "done", !.result = "Err", !.error = error,
              !.client_tcp_stream = "closed"]

\* An early return of Err(error) from the spawned task: every value the task
\* owns is dropped, which closes the client socket and both proxy halves.
\* The JoinHandle of the task is not kept, so the Err goes nowhere.
ReturnErr(r, error) ==
    [r EXCEPT !.pc = "done", !.result = "Err", !.error = error,
              !.client_tcp_stream = "closed",
              !.proxy_connection_write = DropHalf(@),
              !.proxy_connection_read = DropHalf(@)]

\* ReturnOk with the proxy halves kept alive past the return (a leak).
ReturnOk_KeepsProxy(r, c) ==
    [r EXCEPT !.pc = "done", !.result = "Ok",
              !.client_tcp_stream = "closed",
              !.log = Append(@, LogEvent("debug", 124, ClientAddr(c)))]

\* The task ends with Ok(()) after debug!("... complete to serve.").
ReturnOk(r, c) ==
    [r EXCEPT !.pc = "done", !.result = "Ok",
              !.client_tcp_stream = "closed",
              !.proxy_connection_write = DropHalf(@),
              !.proxy_connection_read = DropHalf(@),
              !.log = Append(@, LogEvent("debug", 124, ClientAddr(c)))]

\* The match of the task with its arms swapped.
StartProcess_Swapped(r) ==
    IF r.transport = "Socks5"
    THEN [r EXCEPT !.pc = "http_decode", !.process_calls = Append(@, "Http")]
    ELSE [r EXCEPT !.pc = "socks5", !.process_calls = Append(@, "Socks5")]

\* match client_transport { Socks5(t) => t.process(), Http(t) => t.process() }:
\* the process of the variant is called and runs to its first await.
StartProcess(r) ==
    IF r.transport = "Socks5"
    THEN [r EXCEPT !.pc = "socks5", !.process_calls = Append(@, "Socks5")]
    ELSE [r EXCEPT !.pc = "http_decode", !.process_calls = Append(@, "Http")]

\* HttpClientTransport::new and the call of process: the transport the
\* dispatcher built from a socket whose leading bytes are buf.
HttpTransportSession(buf) ==
    StartProcess([PendingSession EXCEPT !.transport = "Http",
                                        !.client_tcp_stream = "open",
                                        !.initial_buf = buf,
                                        !.transports_created = 1])

-----------------------------------------------------------------------------
(* AgentServer::start, AgentServer::run and accept_client_connection *)

\* The server after AgentServer::start, with the caller in
\* AgentServerGuard::blocking: the server task is spawned and has not
\* reached TcpListener::bind yet.
ServerStarted ==
    [pc |-> "bind",            \* bind, accept (the loop) or finished
     run_result |-> None,      \* what run returned, once it has
     accept_errors |-> 0,      \* failures of accept_client_connection
     errors_logged |-> 0,      \* error! events of run and start
     blocking |-> "waiting"]   \* waiting or returned: the caller of blocking

\* TcpListener::bind succeeds and run enters its loop.
Bind ==
    /\ server.pc = "bind"
    /\ server' = [server EXCEPT !.pc = "accept"]
    /\ UNCHANGED sess

\* TcpListener::bind fails: run returns the error, start logs it and the
\* server task is finished.
BindFail ==
    /\ server.pc = "bind"
    /\ server' = [server EXCEPT !.pc = "finished",
                                !.run_result = Some("Err"),
                                !.errors_logged = @ + 1]
    /\ UNCHANGED sess

\* Accept with the loop awaiting the sessions it spawned: the next connection
\* is taken only when no earlier session is still being served.
Accept_Awaits(c) ==
    /\ server.pc = "accept"
    /\ sess[c].pc = "pending"
    /\ \A d \in Clients \ {c} : sess[d].pc \in {"pending", "refused", "done"}
    /\ sess' = [sess EXCEPT ![c].pc = "dispatch",
                            ![c].client_tcp_stream = "open"]
    /\ UNCHANGED server

\* accept and set_nodelay succeed: handle_client_connection spawns the task
\* of connection c and the loop goes on.
Accept(c) ==
    /\ server.pc = "accept"
    /\ sess[c].pc = "pending"
    /\ sess' = [sess EXCEPT ![c].pc = "dispatch",
                            ![c].client_tcp_stream = "open"]
    /\ UNCHANGED server

\* AcceptFail with the error returned from run (accept(..).await? in the loop).
AcceptFail_Returns ==
    /\ server.pc = "accept"
    /\ server.accept_errors < MaxAcceptErrors
    /\ server' = [server EXCEPT !.pc = "finished",
                                !.run_result = Some("Err"),
                                !.accept_errors = @ + 1,
                                !.errors_logged = @ + 1]
    /\ UNCHANGED sess

\* tcp_listener.accept() fails: logged, continue.
AcceptFail ==
    /\ server.pc = "accept"
    /\ server.accept_errors < MaxAcceptErrors
    /\ server' = [server EXCEPT !.accept_errors = @ + 1,
                                !.errors_logged = @ + 1]
    /\ UNCHANGED sess

\* accept() gives connection c and set_nodelay fails: the stream is dropped,
\* the error logged, continue.
SetNodelayFail(c) ==
    /\ server.pc = "accept"
    /\ server.accept_errors < MaxAcceptErrors
    /\ sess[c].pc = "pending"
    /\ server' = [server EXCEPT !.accept_errors = @ + 1,
                                !.errors_logged = @ + 1]
    /\ sess' = [sess EXCEPT ![c].pc = "refused",
                            ![c].client_tcp_stream = "closed"]

\* Blocking with the loop left without join_handle.is_finished() being true.
Blocking_NoCheck ==
    /\ server.blocking = "waiting"
    /\ server' = [server EXCEPT !.blocking = "returned"]
    /\ UNCHANGED sess

\* AgentServerGuard::blocking: the loop polls join_handle.is_finished() every
\* 100 ms and is left when the server task has finished; a poll that finds
\* the task running changes nothing.
Blocking ==
    /\ server.blocking = "waiting"
    /\ server.pc = "finished"
    /\ server' = [server EXCEPT !.blocking = "returned"]
    /\ UNCHANGED sess

-----------------------------------------------------------------------------
(* The task spawned by handle_client_connection *)

\* dispatch(..).await? read buf and classified it as variant: the transport
\* is built with the socket and the bytes read, and the match calls the
\* process of that variant, which runs to its first await.
Dispatched(r, buf, variant) ==
    StartProcess([r EXCEPT !.transport = variant,
                           !.initial_buf = buf,
                           !.transports_created = @ + 1])

\* dispatch(..).await? : the dispatcher classifies the connection from the
\* leading bytes it reads, which are drawn from bufs.
DispatchHttp(c, bufs) ==
    /\ sess[c].pc = "dispatch"
    /\ \E buf \in bufs :
          /\ Classify(buf) = "Http"
          /\ sess' = [sess EXCEPT ![c] = Dispatched(@, buf, "Http")]
    /\ UNCHANGED server

DispatchSocks5(c, bufs) ==
    /\ sess[c].pc = "dispatch"
    /\ \E buf \in bufs :
          /\ Classify(buf) = "Socks5"
          /\ sess' = [sess EXCEPT ![c] = Dispatched(@, buf, "Socks5")]
    /\ UNCHANGED server

DispatchFail(c, bufs) ==
    /\ sess[c].pc = "dispatch"
    /\ \E buf \in bufs :
          /\ Classify(buf) = "Fail"
          /\ sess' = [sess EXCEPT ![c] =
                ReturnErr([@ EXCEPT !.initial_buf = buf], "Dispatch")]
    /\ UNCHANGED server

\* socks5_transport.process().await? : the outcome of the SOCKS5 transport.
Socks5Process(c) ==
    /\ sess[c].pc = "socks5"
    /\ \/ sess' = [sess EXCEPT ![c] = ReturnOk(@, c)]
       \/ sess' = [sess EXCEPT ![c] = ReturnErr(@, "Socks5")]
    /\ UNCHANGED server

-----------------------------------------------------------------------------
(* HttpClientTransport::process *)

\* config.user_token()
UserToken == "user"

\* AgentServerPayloadEncryptionTypeSelector::select(user_token, Some(seed))
SelectEncryption(user_token, seed) == [scheme |-> "Aes", token |-> seed]

\* PpaassMessageGenerator::generate_agent_tcp_init_message
TcpInitMessage(user_token, src_address, dst_address, payload_encryption) ==
    [payload |-> "TcpInit", user_token |-> user_token,
     src_address |-> src_address, dst_address |-> dst_address,
     encryption |-> payload_encryption]

\* The payloads a message of the proxy can carry, with tunnel ids from ids.
ProxyPayloads(ids) ==
    {[kind |-> "TcpInit", result |-> "Success", id |-> i] : i \in ids}
    \cup {[kind |-> "TcpInit", result |-> "Fail", id |-> 0],
          [kind |-> "TcpData", result |-> "", id |-> 0],
          [kind |-> "Udp", result |-> "", id |-> 0]}

\* Response::new(V1_1, 200, "Connection Established", vec![])
ConnectSuccessResponse ==
    [version |-> "HTTP/1.1", status |-> OK_CODE, reason |-> CONNECTION_ESTABLISHED]

\* AfterDecode with the method compared as written, without to_lowercase.
AfterDecode_CaseSensitive(r, req) ==
    IF req.method = CONNECT_METHOD
    THEN [r EXCEPT !.pc = "http_resolve",
                   !.http_message = Some(req),
                   !.request_url = Some([prefix |-> HTTPS_SCHEMA, target |-> req.target]),
                   !.init_data = None]
    ELSE [r EXCEPT !.pc = "http_resolve",
                   !.http_message = Some(req),
                   !.request_url = Some([prefix |-> "", target |-> req.target]),
                   !.init_data = Some(EncodeRequest(req))]

\* Lines 88-111: the request url and init_data of a decoded request, when
\* the re-encoding of a forwarded request succeeds.
AfterDecode(r, req) ==
    IF ToLowercase(req.method) = CONNECT_METHOD
    THEN [r EXCEPT !.pc = "http_resolve",
                   !.http_message = Some(req),
                   !.request_url = Some([prefix |-> HTTPS_SCHEMA, target |-> req.target]),
                   !.init_data = None]
    ELSE [r EXCEPT !.pc = "http_resolve",
                   !.http_message = Some(req),
                   !.request_url = Some([prefix |-> "", target |-> req.target]),
                   !.init_data = Some(EncodeRequest(req))]

\* http_framed.next().await and the choice between CONNECT and forwarding.
\* The decoder starts from initial_buf (read_buf, line 83), so the request it
\* yields is one whose request line starts with those bytes.
HttpDecode(c, reqs) ==
    /\ sess[c].pc = "http_decode"
    /\ \/ sess' = [sess EXCEPT ![c] = ReturnErr(@, "NothingToRead")]
       \/ sess' = [sess EXCEPT ![c] = ReturnErr(@, "MalformedRequest")]
       \/ \E req \in reqs :
             /\ MethodBytes(req.method) = RequestLineMethod(sess[c].initial_buf)
             /\ ToLowercase(req.method) # CONNECT_METHOD
             /\ sess' = [sess EXCEPT ![c] =
                            ReturnErr([@ EXCEPT !.http_message = Some(req)], "Encode")]
       \/ \E req \in reqs :
             /\ MethodBytes(req.method) = RequestLineMethod(sess[c].initial_buf)
             /\ sess' = [sess EXCEPT ![c] = AfterDecode(@, req)]
    /\ UNCHANGED server

\* AfterResolve with the proxy connection requested before the url is looked at.
AfterResolve_ConnectsFirst(r) ==
    LET url == ParseUrl(r.request_url[1])
        asked == [r EXCEPT !.factory_calls = @ + 1]
    IN  IF ~url.ok
        THEN ReturnErr(asked, "UrlParse")
        ELSE IF url.host = None
        THEN ReturnErr([asked EXCEPT !.parsed_request_url = Some(url)], "NoHost")
        ELSE IF IsInvalidDestination(url.host[1])
        THEN ReturnErr([asked EXCEPT !.parsed_request_url = Some(url)],
                       "InvalidDestination")
        ELSE [r EXCEPT !.pc = "http_build_init",
                       !.parsed_request_url = Some(url),
                       !.dst_address = Some([kind |-> "Domain",
                                             host |-> url.host[1],
                                             port |-> TargetPort(url)])]

\* Lines 113-136: url, port, host, the refused hosts and dst_address.
AfterResolve(r) ==
    LET url == ParseUrl(r.request_url[1])
    IN  IF ~url.ok
        THEN ReturnErr(r, "UrlParse")
        ELSE IF url.host = None
        THEN ReturnErr([r EXCEPT !.parsed_request_url = Some(url)], "NoHost")
        ELSE IF IsInvalidDestination(url.host[1])
        THEN ReturnErr([r EXCEPT !.parsed_request_url = Some(url)],
                       "InvalidDestination")
        ELSE [r EXCEPT !.pc = "http_build_init",
                       !.parsed_request_url = Some(url),
                       !.dst_address = Some([kind |-> "Domain",
                                             host |-> url.host[1],
                                             port |-> TargetPort(url)])]

HttpResolve(c) ==
    /\ sess[c].pc = "http_resolve"
    /\ sess' = [sess EXCEPT ![c] = AfterResolve(@)]
    /\ UNCHANGED server

\* Lines 138-146: the encryption descriptor and the init request.
AfterSelect(r, c, seed) ==
    LET payload_encryption == SelectEncryption(UserToken, seed)
    IN  [r EXCEPT !.pc = "http_connect",
                  !.payload_encryption = Some(payload_encryption),
                  !.select_calls = @ + 1,
                  !.tcp_init_request =
                      Some(TcpInitMessage(UserToken, ClientAddr(c),
                                          r.dst_address[1], payload_encryption))]

HttpBuildInit(c, seeds) ==
    /\ sess[c].pc = "http_build_init"
    /\ \E seed \in seeds :
          \/ sess' = [sess EXCEPT ![c] = AfterSelect(@, c, seed)]
          \/ sess' = [sess EXCEPT ![c] =
                ReturnErr([@ EXCEPT !.payload_encryption =
                                        Some(SelectEncryption(UserToken, seed)),
                                    !.select_calls = @ + 1],
                          "GenerateInit")]
    /\ UNCHANGED server

\* AfterConnectFail with the factory asked again instead of returning.
AfterConnectFail_Retries(r) ==
    [r EXCEPT !.factory_calls = @ + 1]

\* create_proxy_connection().await? failed.
AfterConnectFail(r) ==
    ReturnErr([r EXCEPT !.factory_calls = @ + 1], "ProxyConnect")

\* Lines 148-153: the proxy connection and its two halves.
CreateProxyConnection(c) ==
    /\ sess[c].pc = "http_connect"
    /\ \/ sess' = [sess EXCEPT ![c] = AfterConnectFail(@)]
       \/ sess' = [sess EXCEPT ![c] =
             [@ EXCEPT !.pc = "http_send_init",
                       !.factory_calls = @ + 1,
                       !.proxy_connection_write = "held",
                       !.proxy_connection_read = "held",
                       !.log = Append(@, LogEvent("debug", 153, ClientAddr(c)))]]
    /\ UNCHANGED server

\* Line 154: proxy_connection_write.send(tcp_init_request).await?
SendInit(c) ==
    /\ sess[c].pc = "http_send_init"
    /\ \/ sess' = [sess EXCEPT ![c] = ReturnErr(@, "ProxySend")]
       \/ sess' = [sess EXCEPT ![c] =
             [@ EXCEPT !.pc = "http_recv_init",
                       !.proxy_sent = Append(@, sess[c].tcp_init_request[1])]]
    /\ UNCHANGED server

\* AfterInitResponse with the Fail arm falling through to the Success path.
AfterInitResponse_FailProceeds(r, c, p) ==
    LET got == [r EXCEPT !.proxy_reads = @ + 1, !.init_result = Some(p)]
    IN  IF p.kind # "TcpInit"
        THEN ReturnErr(got, "NotInitResponse")
        ELSE [got EXCEPT !.pc = "http_reply",
                         !.log = Append(@, LogEvent("debug", 184, ClientAddr(c)))]

\* AfterInitResponse with the payload type not checked.
AfterInitResponse_AnyPayload(r, c, p) ==
    LET got == [r EXCEPT !.proxy_reads = @ + 1, !.init_result = Some(p)]
    IN  IF p.result = "Fail"
        THEN ReturnErr([got EXCEPT !.log =
                            Append(@, LogEvent("error", 178, ClientAddr(c)))],
                       "InitFail")
        ELSE [got EXCEPT !.pc = "http_reply",
                         !.log = Append(@, LogEvent("debug", 184, ClientAddr(c)))]

\* Lines 163-184: what process does with the payload of the proxy's message.
AfterInitResponse(r, c, p) ==
    LET got == [r EXCEPT !.proxy_reads = @ + 1, !.init_result = Some(p)]
    IN  IF p.kind # "TcpInit"
        THEN ReturnErr(got, "NotInitResponse")
        ELSE IF p.result = "Fail"
        THEN ReturnErr([got EXCEPT !.log =
                            Append(@, LogEvent("error", 178, ClientAddr(c)))],
                       "InitFail")
        ELSE [got EXCEPT !.pc = "http_reply",
                         !.log = Append(@, LogEvent("debug", 184, ClientAddr(c)))]

\* Lines 156-184: proxy_connection_read.next().await and the init result.
RecvInit(c, ids) ==
    /\ sess[c].pc = "http_recv_init"
    /\ \/ sess' = [sess EXCEPT ![c] =
             ReturnErr([@ EXCEPT !.proxy_reads = @ + 1], "NothingToReadFromProxy")]
       \/ sess' = [sess EXCEPT ![c] =
             ReturnErr([@ EXCEPT !.proxy_reads = @ + 1], "ProxyRead")]
       \/ \E p \in ProxyPayloads(ids) :
             sess' = [sess EXCEPT ![c] = AfterInitResponse(@, c, p)]
    /\ UNCHANGED server

\* AfterReply with the test of init_data left out.
AfterReply_AlwaysReplies(r) ==
    [r EXCEPT !.pc = "http_handoff",
              !.client_written = Append(@, ConnectSuccessResponse)]

\* Lines 185-194 when the write to the client succeeds: the answer to a
\* CONNECT, nothing for a forwarded request.
AfterReply(r) ==
    IF r.init_data = None
    THEN [r EXCEPT !.pc = "http_handoff",
                   !.client_written = Append(@, ConnectSuccessResponse)]
    ELSE [r EXCEPT !.pc = "http_handoff"]

HttpReply(c) ==
    /\ sess[c].pc = "http_reply"
    /\ \/ sess' = [sess EXCEPT ![c] = AfterReply(@)]
       \/ /\ sess[c].init_data = None
          /\ sess' = [sess EXCEPT ![c] = ReturnErr(@, "ClientWrite")]
    /\ UNCHANGED server

\* RelayData with the descriptor selected again from a new random value.
RelayData_Reselects(r, c) ==
    [transport_id |-> r.init_result[1].id,
     src_address |-> ClientAddr(c),
     dst_address |-> r.dst_address[1],
     init_data |-> r.init_data,
     payload_encryption |->
         SelectEncryption(UserToken,
                          (r.payload_encryption[1].token % NumSeeds) + 1)]

\* RelayData with init_data left behind.
RelayData_DropsInitData(r, c) ==
    [transport_id |-> r.init_result[1].id,
     src_address |-> ClientAddr(c),
     dst_address |-> r.dst_address[1],
     init_data |-> None,
     payload_encryption |-> r.payload_encryption[1]]

\* ClientTransportTcpDataRelay { .. } of lines 201-210.
RelayData(r, c) ==
    [transport_id |-> r.init_result[1].id,
     src_address |-> ClientAddr(c),
     dst_address |-> r.dst_address[1],
     init_data |-> r.init_data,
     payload_encryption |-> r.payload_encryption[1]]

\* Lines 195-211: tcp_relay is called with the socket and both proxy halves.
HttpHandOff(c) ==
    /\ sess[c].pc = "http_handoff"
    /\ sess' = [sess EXCEPT ![c] =
          [@ EXCEPT !.pc = "relay",
                    !.relay = Some(RelayData(sess[c], c)),
                    !.client_tcp_stream = "relay",
                    !.proxy_connection_write = "relay",
                    !.proxy_connection_read = "relay"]]
    /\ UNCHANGED server

-----------------------------------------------------------------------------
(* tcp_relay: the relay state machine, Init -> Established -> Closed *)

InitDataFrame(bytes) == [kind |-> "init_data", bytes |-> bytes, size |-> 0]

\* The k-th chunk of the client, framed for the proxy.
DataFrame(k) == [kind |-> "data", bytes |-> k, size |-> ChunkBytes]

\* The data frames among the frames sent to the proxy.
DataFrames(frames) == SelectSeq(frames, LAMBDA f : f.kind = "data")

\* Entering Established: init_data, when the relay was given one, goes to the
\* proxy as the first payload frame, before any byte is pumped.
RelayEstablish(c) ==
    /\ sess[c].pc = "relay"
    /\ sess' = [sess EXCEPT ![c] =
          [@ EXCEPT !.pc = "established",
                    !.to_proxy =
                        IF sess[c].relay[1].init_data # None
                        THEN <<InitDataFrame(sess[c].relay[1].init_data[1])>>
                        ELSE <<>>]]
    /\ UNCHANGED server

\* Upload without the counter.
Uploaded_NotCounted(r) ==
    [r EXCEPT !.to_proxy = Append(@, DataFrame(Len(DataFrames(r.to_proxy)) + 1))]

\* client -> proxy: a chunk read from the client socket is framed, sent to
\* the proxy and added to the upload counter.
Uploaded(r) ==
    [r EXCEPT !.to_proxy = Append(@, DataFrame(Len(DataFrames(r.to_proxy)) + 1)),
              !.upload_bytes_amount = @ + ChunkBytes]

\* proxy -> client: the payload of a data frame of the proxy is written to
\* the client socket and added to the download counter.
Downloaded(r) ==
    [r EXCEPT !.to_client = Append(@, [bytes |-> Len(r.to_client) + 1,
                                       size |-> ChunkBytes]),
              !.download_bytes_amount = @ + ChunkBytes]

\* Established: one chunk moves in one of the two directions; the client
\* sends at most up chunks and the proxy at most down.
RelayPump(c, up, down) ==
    /\ sess[c].pc = "established"
    /\ \/ /\ Len(DataFrames(sess[c].to_proxy)) < up
          /\ sess' = [sess EXCEPT ![c] = Uploaded(@)]
       \/ /\ Len(sess[c].to_client) < down
          /\ sess' = [sess EXCEPT ![c] = Downloaded(@)]
    /\ UNCHANGED server

\* Established: one side ends its stream and the relay starts the graceful
\* shutdown of both legs.
RelayEof(c) ==
    /\ sess[c].pc = "established"
    /\ \E side \in {"client", "proxy"} :
          sess' = [sess EXCEPT ![c] =
                      [@ EXCEPT !.pc = "relay_closing", !.relay_cause = side]]
    /\ UNCHANGED server

\* An error in either direction, or on the init_data frame: both legs are
\* torn down at once, the cause is logged, and tcp_relay returns the error.
RelayError(c) ==
    /\ sess[c].pc \in {"relay", "established"}
    /\ sess' = [sess EXCEPT ![c] =
          ReturnErr([@ EXCEPT !.log =
                         Append(@, LogEvent("error", 0, ClientAddr(c)))],
                    "Relay")]
    /\ UNCHANGED server

\* Lines 212 and 121-125: the shutdown flushes and closes both legs, tcp_relay
\* returns and the task ends with its result.
TcpRelayReturn(c) ==
    /\ sess[c].pc = "relay_closing"
    /\ \/ sess' = [sess EXCEPT ![c] = ReturnOk(@, c)]
       \/ sess' = [sess EXCEPT ![c] = ReturnErr(@, "Relay")]
    /\ UNCHANGED server

-----------------------------------------------------------------------------
(* Specifications *)

\* The steps of HttpClientTransport::process, with the requests drawn from
\* reqs, the random values from seeds, the proxy's tunnel ids from ids, and
\* at most up chunks of the client and down chunks of the proxy to relay.
HttpProcess(c, reqs, seeds, ids, up, down) ==
    \/ HttpDecode(c, reqs)
    \/ HttpResolve(c)
    \/ HttpBuildInit(c, seeds)
    \/ CreateProxyConnection(c)
    \/ SendInit(c)
    \/ RecvInit(c, ids)
    \/ HttpReply(c)
    \/ HttpHandOff(c)
    \/ RelayEstablish(c)
    \/ RelayPump(c, up, down)
    \/ RelayEof(c)
    \/ RelayError(c)
    \/ TcpRelayReturn(c)

\* The server: AgentServer::start on a listener with NumClients connections
\* arriving, each running its own task; one random value, one tunnel id, and
\* one chunk of the client to relay.
Init ==
    /\ server = ServerStarted
    /\ sess = [c \in Clients |-> PendingSession]

Next ==
    \/ Bind
    \/ BindFail
    \/ AcceptFail
    \/ Blocking
    \/ \E c \in Clients :
          \/ Accept(c)
          \/ SetNodelayFail(c)
          \/ DispatchHttp(c, ServerLeadingBytes)
          \/ DispatchSocks5(c, ServerLeadingBytes)
          \/ DispatchFail(c, ServerLeadingBytes)
          \/ Socks5Process(c)
          \/ HttpProcess(c, ServerRequests, {1}, {1}, 1, 0)

Spec == Init /\ [][Next]_vars

\* Spec under the scheduling of the tokio runtime: the accept loop is a task
\* of its own, so a connection waiting in the backlog is taken by accept, and
\* the caller of blocking keeps polling.
SpecFair ==
    /\ Spec
    /\ \A c \in Clients : WF_vars(Accept(c) \/ SetNodelayFail(c))
    /\ WF_vars(Blocking)

\* One HTTP transport, from HttpClientTransport::new to the end of process,
\* over every request of Requests.
InitHttp ==
    /\ server = [ServerStarted EXCEPT !.pc = "accept"]
    /\ \E m \in Methods :
          sess = [c \in {1} |-> HttpTransportSession(RequestLineStart(m))]

NextHttp == HttpProcess(1, Requests, Seeds, TunnelIds, MaxChunks, MaxChunks)

SpecHttp == InitHttp /\ [][NextHttp]_vars

\* SpecHttp with the relay's shutdown scheduled: once the shutdown of both
\* legs has begun, the task that runs it is polled until it returns.
SpecHttpFair == SpecHttp /\ WF_vars(TcpRelayReturn(1))

\* One connection from the listener's backlog through the dispatcher, over
\* every leading byte sequence of LeadingBytes.
InitDispatch ==
    /\ server = [ServerStarted EXCEPT !.pc = "accept"]
    /\ sess = [c \in {1} |-> PendingSession]

NextDispatch ==
    \/ Accept(1)
    \/ DispatchHttp(1, LeadingBytes)
    \/ DispatchSocks5(1, LeadingBytes)
    \/ DispatchFail(1, LeadingBytes)
    \/ Socks5Process(1)
    \/ HttpProcess(1, Requests, {1}, {1}, 1, 1)

SpecDispatch == InitDispatch /\ [][NextDispatch]_vars

-----------------------------------------------------------------------------
(* Properties *)

\* The connections of the specification at hand.
Conns == DOMAIN sess

IsSuccess(init_result) ==
    /\ init_result # None
    /\ init_result[1].kind = "TcpInit"
    /\ init_result[1].result = "Success"

IsFail(init_result) ==
    /\ init_result # None
    /\ init_result[1].kind = "TcpInit"
    /\ init_result[1].result = "Fail"

\* C1: once the proxy has answered the init request with Fail(reason), process
\* has returned an error, tcp_relay was not and will not be called, and
\* nothing was written to the client socket, for CONNECT and forward alike.
C1_FailNeverEstablishes ==
    \A c \in Conns :
        IsFail(sess[c].init_result) =>
            /\ sess[c].pc = "done"
            /\ sess[c].result = "Err"
            /\ sess[c].relay = None
            /\ sess[c].client_tcp_stream # "relay"
            /\ sess[c].client_written = <<>>

C1_Witness ==
    \E c \in Conns :
        /\ IsFail(sess[c].init_result)
        /\ sess[c].http_message # None
        /\ sess[c].http_message[1].method = "CONNECT"
        /\ sess[c].pc = "done"

\* C2: a request whose resolved host is 0.0.0.1 or 127.0.0.1 ends in an error
\* with no proxy connection asked of the factory, no init request built or
\* sent, nothing read from the proxy, and no relay.
C2_LoopbackRejectedBeforeInit ==
    \A c \in Conns :
        (/\ sess[c].parsed_request_url # None
         /\ sess[c].parsed_request_url[1].host \in {<<"0.0.0.1">>, <<"127.0.0.1">>})
        =>  /\ sess[c].pc = "done"
            /\ sess[c].result = "Err"
            /\ sess[c].factory_calls = 0
            /\ sess[c].tcp_init_request = None
            /\ sess[c].proxy_sent = <<>>
            /\ sess[c].proxy_reads = 0
            /\ sess[c].proxy_connection_write = "none"
            /\ sess[c].relay = None

C2_Witness ==
    \E c \in Conns :
        /\ sess[c].parsed_request_url # None
        /\ sess[c].parsed_request_url[1].host = <<"127.0.0.1">>
        /\ sess[c].http_message[1].method = "GET"
        /\ sess[c].result = "Err"

\* C3: process writes at most one response, only after a Success init result;
\* when tcp_relay is about to be called and once it has been called, a CONNECT
\* has had exactly one "200 Connection Established" written and a forwarded
\* request has had nothing written.
C3_ConnectReplyBeforeRelay ==
    \A c \in Conns :
        /\ Len(sess[c].client_written) <= 1
        /\ sess[c].client_written # <<>> =>
              /\ IsSuccess(sess[c].init_result)
              /\ sess[c].init_data = None
              /\ sess[c].client_written[1].status = 200
              /\ sess[c].client_written[1].reason = "Connection Established"
        /\ (sess[c].pc = "http_handoff" \/ sess[c].relay # None) =>
              /\ IsSuccess(sess[c].init_result)
              /\ ToLowercase(sess[c].http_message[1].method) = "connect"
                    => Len(sess[c].client_written) = 1
              /\ ToLowercase(sess[c].http_message[1].method) # "connect"
                    => Len(sess[c].client_written) = 0

C3_Witness ==
    \E c \in Conns :
        /\ sess[c].pc = "relay"
        /\ sess[c].http_message[1].method = "CONNECT"
        /\ Len(sess[c].client_written) = 1

\* A step in which connection c, or the attempt to accept it, fails.
FailureStep(c) ==
    \/ sess[c].result = "none" /\ sess'[c].result = "Err"
    \/ sess[c].pc = "pending" /\ sess'[c].pc = "refused"

\* C4: no failed session and no failed accept ends the accept loop or touches
\* another session: a step leaves the loop running, a failure step of one
\* connection leaves every other connection as it was, and the loop can
\* accept any connection that is still pending.
C4_FailuresAreSessionScoped ==
    /\ [][/\ server.pc = "accept" => server'.pc = "accept"
          /\ \A c \in Conns :
                FailureStep(c) => \A d \in Conns \ {c} : sess'[d] = sess[d]]_vars
    /\ [](\A c \in Conns :
            (server.pc = "accept" /\ sess[c].pc = "pending") => ENABLED Accept(c))

C4_Witness ==
    /\ server.accept_errors = MaxAcceptErrors
    /\ server.pc = "accept"
    /\ \E c, d \in Conns :
          /\ sess[c].result = "Err"
          /\ sess[d].pc = "relay"

\* C5: a session that ended with an error has an error-level event with the
\* client address in its log.
C5_ErrorsAreLogged ==
    \A c \in Conns :
        sess[c].result = "Err" =>
            \E i \in 1 .. Len(sess[c].log) :
                /\ sess[c].log[i].level = "error"
                /\ sess[c].log[i].addr = ClientAddr(c)

\* Connection c obtained a proxy channel in this session.
HasProxyChannel(c) == sess[c].proxy_connection_write # "none"

\* C6: process asks the factory for a connection at most once, sends at most
\* one init request and reads at most one answer; after a failure of the
\* factory or of the exchange it has returned the error with nothing retried.
C6_InitIsOneShot ==
    \A c \in Conns :
        /\ sess[c].factory_calls <= 1
        /\ Len(sess[c].proxy_sent) <= 1
        /\ sess[c].proxy_reads <= 1
        /\ sess[c].proxy_reads <= Len(sess[c].proxy_sent)
        /\ Len(sess[c].proxy_sent) <= sess[c].factory_calls
        /\ (sess[c].factory_calls = 1 /\ ~HasProxyChannel(c)) =>
              sess[c].pc = "done" /\ sess[c].result = "Err"
        /\ (sess[c].proxy_reads = 1 /\ ~IsSuccess(sess[c].init_result)) =>
              sess[c].pc = "done" /\ sess[c].result = "Err"

C6_Witness ==
    \E c \in Conns :
        /\ sess[c].factory_calls = 1
        /\ ~HasProxyChannel(c)
        /\ sess[c].pc = "done"

\* C7: tcp_relay is called only in a session that has received Success, with
\* the tunnel id of that answer; a session without a decoded request, without
\* a parsed url, without a url host, with a refused host, without an answer
\* of the proxy or with an answer other than Success that has left its step
\* has returned an error.
C7_ErrorsNeverReachRelay ==
    \A c \in Conns :
        /\ (sess[c].relay # None \/ sess[c].client_tcp_stream = "relay") =>
              /\ IsSuccess(sess[c].init_result)
              /\ sess[c].relay # None
              /\ sess[c].relay[1].transport_id = sess[c].init_result[1].id
        /\ (/\ sess[c].transport = "Http"
            /\ sess[c].pc \notin {"http_decode", "http_resolve", "http_build_init",
                                  "http_connect", "http_send_init", "http_recv_init"}
            /\ \/ sess[c].http_message = None
               \/ sess[c].parsed_request_url = None
               \/ sess[c].parsed_request_url[1].host = None
               \/ sess[c].parsed_request_url[1].host[1] \in {"0.0.0.1", "127.0.0.1"}
               \/ ~IsSuccess(sess[c].init_result))
           => /\ sess[c].pc = "done"
              /\ sess[c].result = "Err"
              /\ sess[c].relay = None

C7_Witness ==
    \E c \in Conns :
        /\ sess[c].init_result # None
        /\ sess[c].init_result[1].kind = "TcpData"
        /\ sess[c].result = "Err"

\* C8: a session that obtained a proxy channel and ended without a Success
\* answer has its client socket closed and both halves of the proxy channel
\* dropped, and tcp_relay was never called.
C8_InitFailureLeavesNothing ==
    \A c \in Conns :
        (/\ HasProxyChannel(c)
         /\ sess[c].pc = "done"
         /\ ~IsSuccess(sess[c].init_result))
        =>  /\ sess[c].result = "Err"
            /\ sess[c].client_tcp_stream = "closed"
            /\ sess[c].proxy_connection_write = "dropped"
            /\ sess[c].proxy_connection_read = "dropped"
            /\ sess[c].relay = None

C8_Witness ==
    \E c \in Conns :
        /\ HasProxyChannel(c)
        /\ sess[c].pc = "done"
        /\ sess[c].proxy_reads = 1
        /\ sess[c].init_result = None

\* C9: the selector is called at most once per session, and the descriptor
\* tcp_relay receives is the one of the init request that was sent.
C9_OneEncryptionPerSession ==
    \A c \in Conns :
        /\ sess[c].select_calls <= 1
        /\ sess[c].relay # None =>
              /\ sess[c].select_calls = 1
              /\ Len(sess[c].proxy_sent) = 1
              /\ sess[c].relay[1].payload_encryption = sess[c].proxy_sent[1].encryption

C9_Witness ==
    \E c \in Conns :
        /\ sess[c].relay # None
        /\ sess[c].relay[1].payload_encryption.token = NumSeeds

\* The port the claim gives a request: the port written in the target,
\* else 443 under https (every CONNECT), else 80.
ClaimedPort(req) ==
    IF req.target.port # 0
    THEN req.target.port
    ELSE IF ToLowercase(req.method) = "connect" \/ req.target.scheme = "https"
         THEN 443
         ELSE 80

\* C10: the destination address is the domain+port value of the url host and
\* the written port, else 443 for https, else 80.
C10_DestinationPort ==
    \A c \in Conns :
        sess[c].dst_address # None =>
            /\ sess[c].dst_address[1].kind = "Domain"
            /\ sess[c].dst_address[1].host = sess[c].http_message[1].target.host
            /\ sess[c].dst_address[1].port = ClaimedPort(sess[c].http_message[1])


\* C11: once the request url and init_data are bound, init_data is None
\* exactly when the method is CONNECT in any letter case; for any other method
\* it is Some(the re-encoded request); and tcp_relay is given that init_data.
C11_InitDataIffNotConnect ==
    \A c \in Conns :
        sess[c].request_url # None =>
            LET req == sess[c].http_message[1]
            IN  /\ sess[c].init_data = None <=> req.method \in {"CONNECT", "connect"}
                /\ req.method \notin {"CONNECT", "connect"} =>
                      sess[c].init_data = <<<<req.method, req.target>>>>
                /\ sess[c].relay # None =>
                      sess[c].relay[1].init_data = sess[c].init_data

C11_Witness ==
    \E c \in Conns :
        /\ sess[c].relay # None
        /\ sess[c].http_message[1].method = "GET"
        /\ sess[c].relay[1].init_data # None


\* C13: dispatch builds at most one transport per connection; when it succeeds
\* the process of exactly the classified variant is called, once; when it
\* fails no transport exists and no process is called.
C13_TransportProcessedOnce ==
    \A c \in Conns :
        /\ sess[c].transports_created <= 1
        /\ Len(sess[c].process_calls) <= 1
        /\ Len(sess[c].process_calls) = sess[c].transports_created
        /\ sess[c].transport = "Http" => sess[c].process_calls = <<"Http">>
        /\ sess[c].transport = "Socks5" => sess[c].process_calls = <<"Socks5">>
        /\ sess[c].transport = "None" => sess[c].process_calls = <<>>
        /\ sess[c].error = "Dispatch" =>
              /\ sess[c].transports_created = 0
              /\ sess[c].process_calls = <<>>
              /\ sess[c].pc = "done"
        /\ sess[c].pc = "socks5" => sess[c].process_calls = <<"Socks5">>
        /\ sess[c].http_message # None => sess[c].process_calls = <<"Http">>

C13_Witness ==
    \E c, d \in Conns :
        /\ sess[c].process_calls = <<"Http">>
        /\ sess[c].pc = "done"
        /\ sess[d].error = "Dispatch"

\* The connection has been through the dispatcher.
WasDispatched(c) == sess[c].pc \notin {"pending", "refused", "dispatch"}

\* C14: leading bytes that start with 0x05 give a SOCKS5 transport, the start
\* of an HTTP request line ("GET ", "CONNECT ", "connect ") gives an HTTP
\* transport, and any other leading bytes give no transport: the task ends
\* with the error and the socket closed. Each connection gets exactly one of
\* the three.
C14_Classification ==
    \A c \in Conns :
        WasDispatched(c) =>
            LET buf == sess[c].initial_buf
                socks == buf # <<>> /\ buf[1] = 5
                http == buf \in {<<71, 69, 84, 32>>,
                                 <<67, 79, 78, 78, 69, 67, 84, 32>>,
                                 <<99, 111, 110, 110, 101, 99, 116, 32>>}
            IN  /\ socks => sess[c].transport = "Socks5"
                /\ http => sess[c].transport = "Http"
                /\ (~socks /\ ~http) =>
                      /\ sess[c].transport = "None"
                      /\ sess[c].pc = "done"
                      /\ sess[c].result = "Err"
                      /\ sess[c].client_tcp_stream = "closed"
                      /\ sess[c].transports_created = 0
                /\ ~(socks /\ http)

C14_Witness ==
    \E c \in Conns :
        /\ WasDispatched(c)
        /\ sess[c].initial_buf = <<5, 71, 69, 84, 32>>
        /\ sess[c].transport = "Socks5"


\* Both legs of connection c are closed: the client socket and both halves
\* of the proxy channel.
BothLegsClosed(c) ==
    /\ sess[c].client_tcp_stream = "closed"
    /\ sess[c].proxy_connection_write = "dropped"
    /\ sess[c].proxy_connection_read = "dropped"

\* C15: a relay that has ended, by end of stream or by error, has closed both
\* legs; once an end of stream has begun the shutdown nothing more is pumped;
\* and the shutdown, whichever side caused it, leads to the session Closed
\* with both legs closed.
C15_RelayClosesBothLegs ==
    /\ [](\A c \in Conns :
            (sess[c].relay # None /\ sess[c].pc = "done") => BothLegsClosed(c))
    /\ [][\A c \in Conns :
            sess[c].pc = "relay_closing" =>
                /\ sess'[c].to_proxy = sess[c].to_proxy
                /\ sess'[c].to_client = sess[c].to_client
                /\ sess'[c].pc \in {"relay_closing", "done"}]_vars
    /\ (sess[1].pc = "relay_closing" /\ sess[1].relay_cause = "client")
          ~> (sess[1].pc = "done" /\ BothLegsClosed(1))
    /\ (sess[1].pc = "relay_closing" /\ sess[1].relay_cause = "proxy")
          ~> (sess[1].pc = "done" /\ BothLegsClosed(1))

C15_Witness ==
    \E c \in Conns :
        /\ sess[c].pc = "relay_closing"
        /\ sess[c].relay_cause = "client"
        /\ sess[c].proxy_connection_write = "relay"
        /\ Len(sess[c].to_client) = MaxChunks

\* C16: a forwarded request's init_data is the first frame the relay sends to
\* the proxy, it is sent once, and the client's chunks follow it in order;
\* a CONNECT sends no init_data frame.
C16_InitDataFirst ==
    \A c \in Conns :
        LET frames == sess[c].to_proxy
        IN  /\ (sess[c].init_data # None
                /\ sess[c].pc \in {"established", "relay_closing"}) =>
                  /\ frames # <<>>
                  /\ frames[1].kind = "init_data"
                  /\ frames[1].bytes = sess[c].init_data[1]
            /\ \A i \in 2 .. Len(frames) : frames[i].kind = "data"
            /\ \A i, j \in 1 .. Len(frames) :
                  (i < j /\ frames[i].kind = "data") => frames[i].bytes < frames[j].bytes
            /\ (sess[c].init_data = None /\ frames # <<>>) => frames[1].kind = "data"

C16_Witness ==
    \E c \in Conns :
        /\ sess[c].init_data # None
        /\ Len(sess[c].to_proxy) = 1 + MaxChunks
        /\ sess[c].pc = "established"

\* The bytes of a sequence of frames or chunks.
RECURSIVE TotalBytes(_)
TotalBytes(frames) ==
    IF frames = <<>> THEN 0 ELSE Head(frames).size + TotalBytes(Tail(frames))

\* C17: no step lowers the upload or the download counter of a session, and
\* the counters are at least the bytes of the client's chunks sent to the
\* proxy and of the proxy's chunks written to the client.
C17_CountersMonotone ==
    /\ [][\A c \in Conns :
            /\ sess'[c].upload_bytes_amount >= sess[c].upload_bytes_amount
            /\ sess'[c].download_bytes_amount >= sess[c].download_bytes_amount]_vars
    /\ [](\A c \in Conns :
            /\ sess[c].upload_bytes_amount >= TotalBytes(sess[c].to_proxy)
            /\ sess[c].download_bytes_amount >= TotalBytes(sess[c].to_client))

C17_Witness ==
    \E c \in Conns :
        /\ sess[c].pc = "done"
        /\ sess[c].upload_bytes_amount = MaxChunks * ChunkBytes
        /\ sess[c].download_bytes_amount = ChunkBytes


\* The errors of process that precede line 148.
EarlyErrors ==
    {"NothingToRead", "MalformedRequest", "Encode", "UrlParse", "NoHost",
     "InvalidDestination", "GenerateInit"}

\* C18: when create_proxy_connection has been called, the request was
\* decoded, re-encoded if it is not a CONNECT, its url parsed, its host
\* present and allowed, and the init request built; a session that failed in
\* one of those steps never called create_proxy_connection and never held a
\* proxy channel.
C18_ProxyRequestedLast ==
    \A c \in Conns :
        LET r == sess[c]
        IN  /\ r.factory_calls > 0 =>
                  /\ r.http_message # None
                  /\ ToLowercase(r.http_message[1].method) # CONNECT_METHOD =>
                        r.init_data = Some(EncodeRequest(r.http_message[1]))
                  /\ r.parsed_request_url # None
                  /\ r.parsed_request_url[1].ok
                  /\ r.parsed_request_url[1].host # None
                  /\ ~IsInvalidDestination(r.parsed_request_url[1].host[1])
                  /\ r.dst_address # None
                  /\ r.tcp_init_request # None
            /\ r.error \in EarlyErrors =>
                  /\ r.factory_calls = 0
                  /\ r.proxy_connection_write = "none"
                  /\ r.proxy_connection_read = "none"
                  /\ r.proxy_sent = <<>>

C18_Witness ==
    \E c \in Conns :
        /\ sess[c].error = "InvalidDestination"
        /\ sess[c].init_data # None
        /\ sess[c].pc = "done"


\* C19: the server task leaves the accept loop by no step; run returns only
\* from the failed bind, with an error; blocking has returned only when the
\* bind failed, and a failed bind leads to the return of blocking.
C19_ServerRunsUntilBindFails ==
    /\ [][server.pc = "accept" => server'.pc = "accept"]_vars
    /\ [][(server.pc # "finished" /\ server'.pc = "finished") =>
            /\ server.pc = "bind"
            /\ server'.run_result = Some("Err")
            /\ server'.errors_logged = server.errors_logged + 1]_vars
    /\ [](server.run_result # Some("Ok"))
    /\ [](server.blocking = "returned" =>
            /\ server.pc = "finished"
            /\ server.accept_errors = 0
            /\ \A c \in Clients : sess[c].pc = "pending")
    /\ (server.pc = "finished") ~> (server.blocking = "returned")
    /\ [](server.pc = "accept" => server.blocking = "waiting")

C19_Witness ==
    /\ server.pc = "accept"
    /\ server.blocking = "waiting"
    /\ server.accept_errors = MaxAcceptErrors
    /\ \E c \in Clients : sess[c].result = "Err"


\* C12: a step is a step of at most one session, and the step that accepts a
\* connection leaves the loop in accept and every other session as it was;
\* in the accept loop a pending connection can be accepted whatever state the
\* other sessions are in; and once the loop runs, every connection pending
\* in the backlog is eventually taken from it.
C12_AcceptNeverWaits ==
    /\ [][\A c, d \in Clients :
            (sess'[c] # sess[c] /\ sess'[d] # sess[d]) => c = d]_vars
    /\ [][\A c \in Clients :
            (sess[c].pc = "pending" /\ sess'[c].pc = "dispatch") =>
                /\ server'.pc = "accept"
                /\ sess'[c].client_tcp_stream = "open"]_vars
    /\ [](\A c \in Clients :
            (server.pc = "accept" /\ sess[c].pc = "pending") => ENABLED Accept(c))
    /\ (server.pc = "accept") ~> (\A c \in Clients : sess[c].pc # "pending")

C12_Witness ==
    \E c, d \in Clients :
        /\ c # d
        /\ sess[c].pc = "established"
        /\ sess[d].pc = "http_recv_init"

====
